---- MODULE Spec2Model ----
(***************************************************************************)
(* A model of vblk: mount() of src/lib.rs with its request loop, the       *)
(* worker thread it spawns, the wire codec of src/nbd.rs, the embedder's   *)
(* Device handle, and the kernel NBD module as the environment on the      *)
(* other end of the socket pair.                                           *)
(*                                                                         *)
(* Machine words are kept as their digits base 256, most significant       *)
(* first (TLC's integers are narrower than u32/u64).  A struct field in    *)
(* memory is the byte sequence the host stores for that word; hostLE says  *)
(* whether the host is little-endian.                                      *)
(***************************************************************************)
EXTENDS Integers, Sequences, FiniteSets, TLC

VARIABLES
  hostLE,     \* the target's byte order: TRUE on a little-endian host
  pc,         \* where the thread that called mount() is
  wpc,        \* where the worker thread is
  uIn,        \* what the kernel sent on K and the loop has not read: one
              \* entry per frame, its bytes fixed when the loop reads it
  payIn,      \* payload bytes waiting on U behind the frame just read
  uOpen,      \* U (userspace_socket) is open
  kFdOpen,    \* the process still holds kernel_socket's descriptor
  sockSet,    \* the kernel holds K (NBD_SET_SOCK done, not yet cleared)
  kShut,      \* the kernel shut K down
  discReq,    \* a disconnect was requested while the device was running
  request,    \* nbd::Request: its 32 bytes of memory
  reply,      \* nbd::Reply: its 16 bytes of memory
  buffer,     \* the scratch Vec<u8>
  memory,     \* the backend's storage
  cur,        \* the request being served, decoded (history of this round)
  evs,        \* what the loop did since it read that request, in order
  unmounts,   \* how often backend.unmount() ran
  device,     \* the Device handle: "none", "held" by the embedder
  umCalled,   \* Device::unmount was called
  loopRes,    \* the scope closure's own result
  wres,       \* the worker closure's result
  firstErr,   \* which of the two produced an error first
  forced,     \* the forced disconnect of line 227 was issued
  mountRes,   \* what mount() returned
  blockSize   \* the local block_size between lines 129 and 134

vars == <<hostLE, pc, wpc, uIn, uOpen, kFdOpen, sockSet, kShut, discReq,
          request, reply, buffer, memory, cur, evs, unmounts, device,
          umCalled, loopRes, wres, firstErr, forced, mountRes, blockSize,
          payIn>>

----------------------------------------------------------------------------
(* Bounds of the model. *)

\* Requests the kernel may have queued on K ahead of the loop.
MaxQueued == 1
\* Bytes of backend storage; requests stay inside it.
MemSize == 2

----------------------------------------------------------------------------
(* Bytes and words. *)

Rev(s) == [i \in 1..Len(s) |-> s[Len(s) + 1 - i]]

Zeros(n) == [i \in 1..n |-> 0]

\* The digits of a small natural as a u32 / u64.
U32(n) == <<(n \div 16777216) % 256, (n \div 65536) % 256, (n \div 256) % 256, n % 256>>
U64(n) == Zeros(4) \o U32(n)

\* The value of a word whose digits are d (small values only).
RECURSIVE Val(_)
Val(d) == IF d = <<>> THEN 0 ELSE Val(SubSeq(d, 1, Len(d) - 1)) * 256 + d[Len(d)]

\* `errno as u32`: two's complement of an i32.
I32AsU32(e) == IF e >= 0 THEN U32(e) ELSE [i \in 1..4 |-> 255 - U32(-e - 1)[i]]

\* A word as the host keeps it in memory, and back.
Store(d) == IF hostLE THEN Rev(d) ELSE d
Load(m) == IF hostLE THEN Rev(m) ELSE m

\* u32::to_be / u64::to_be and from_be: a byte swap on a little-endian host.
to_be(d) == IF hostLE THEN Rev(d) ELSE d
from_be(d) == IF hostLE THEN Rev(d) ELSE d

----------------------------------------------------------------------------
(* The wire codec, src/nbd.rs. *)

REQUEST_MAGIC == <<37, 96, 149, 19>>    \* 0x2560_9513
REPLY_MAGIC == <<103, 68, 102, 152>>    \* 0x6744_6698

CMD_READ == 0
CMD_WRITE == 1
CMD_DISC == 2
CMD_FLUSH == 3
CMD_TRIM == 4

\* size_of::<Request>() and REQUEST_LEN = size_of::<Request>() - 4.
REQUEST_SIZE == 32
REQUEST_LEN == REQUEST_SIZE - 4
REPLY_SIZE == 16

EIO == 5

\* The fields of a Request / Reply in memory (repr(C)), as native words.
ReqMagic(r) == Load(SubSeq(r, 1, 4))
ReqKind(r) == Load(SubSeq(r, 5, 8))
ReqHandle(r) == Load(SubSeq(r, 9, 16))
ReqFrom(r) == Load(SubSeq(r, 17, 24))
ReqLen(r) == Load(SubSeq(r, 25, 28))

\* A Reply built from its three native words.
MkReply(magic, error, handle) == Store(magic) \o Store(error) \o Store(handle)
RepMagic(p) == Load(SubSeq(p, 1, 4))
RepError(p) == Load(SubSeq(p, 5, 8))
RepHandle(p) == Load(SubSeq(p, 9, 16))

is_magic_valid(r) == ReqMagic(r) = to_be(REQUEST_MAGIC)

\* Variants of new_reply_for_request: one stores the magic in host byte
\* order, one converts the handle as it does the other fields.
new_reply_native_magic(r) == MkReply(REPLY_MAGIC, U32(0), ReqHandle(r))
new_reply_swapped_handle(r) == MkReply(to_be(REPLY_MAGIC), U32(0), from_be(ReqHandle(r)))

new_reply_for_request(r) == MkReply(to_be(REPLY_MAGIC), U32(0), ReqHandle(r))

command(r) ==
  LET k == from_be(ReqKind(r)) IN
    CASE k = U32(CMD_READ) -> "Read"
      [] k = U32(CMD_WRITE) -> "Write"
      [] k = U32(CMD_DISC) -> "Disconnect"
      [] k = U32(CMD_FLUSH) -> "Flush"
      [] k = U32(CMD_TRIM) -> "Trim"
      [] OTHER -> "Unknown"

offset(r) == Val(from_be(ReqFrom(r)))

len(r) == Val(from_be(ReqLen(r)))

\* A variant of set_errno that stores the errno in host byte order.
set_errno_native(p, errno) == MkReply(RepMagic(p), I32AsU32(errno), RepHandle(p))

set_errno(p, errno) == MkReply(RepMagic(p), to_be(I32AsU32(errno)), RepHandle(p))

\* Request::default(): all fields zero.
RequestDefault == Zeros(REQUEST_SIZE)

----------------------------------------------------------------------------
(* The socket pair, as the request loop sees it. *)

Min(a, b) == IF a <= b THEN a ELSE b

\* K no longer transmits: the kernel shut it down, or every reference to it
\* (the process's descriptor, the kernel's) is gone.
KGone == kShut \/ (~kFdOpen /\ ~sockSet)

----------------------------------------------------------------------------
(* The backend (a BlockDevice): a byte array, as examples/ramdisk.rs, whose *)
(* operations may also fail, with or without an errno.                     *)

Errnos == {30}        \* EROFS

Ok == [ok |-> TRUE, has |-> FALSE, errno |-> 0]
Err(e) == [ok |-> FALSE, has |-> TRUE, errno |-> e]
ErrNone == [ok |-> FALSE, has |-> FALSE, errno |-> 0]
Results == {Ok, ErrNone} \cup {Err(e) : e \in Errnos}

\* err.raw_os_error().unwrap_or(EIO as i32)
RawOsErrorOr(res) == IF res.has THEN res.errno ELSE EIO

\* RamDisk::read: bytes.copy_from_slice(&memory[offset..offset + bytes.len()])
RamRead(mem, off, n) == SubSeq(mem, off + 1, off + n)

\* A variant of RamDisk::write that stores the bytes at the start of memory.
RamWriteAtZero(mem, off, bytes) ==
  [i \in 1..Len(mem) |-> IF i <= Len(bytes) THEN bytes[i] ELSE mem[i]]

\* RamDisk::write: memory[offset..offset + bytes.len()].copy_from_slice(bytes)
RamWrite(mem, off, bytes) ==
  [i \in 1..Len(mem) |->
     IF i > off /\ i <= off + Len(bytes) THEN bytes[i - off] ELSE mem[i]]

\* A variant of the resize that clears the buffer.
ResizeCleared(buf, n) == [i \in 1..n |-> 0]

\* Vec::resize(n, 0)
Resize(buf, n) == [i \in 1..n |-> IF i <= Len(buf) THEN buf[i] ELSE 0]

\* BlockDevice::block_size() of the backends tried.
BlockSizes == {256, 512, 768, 1024}

RECURSIVE is_power_of_two(_)
is_power_of_two(n) ==
  IF n = 1 THEN TRUE
  ELSE IF n = 0 \/ n % 2 = 1 THEN FALSE
  ELSE is_power_of_two(n \div 2)

MIN_BLOCK_SIZE == 512

----------------------------------------------------------------------------
(* What the kernel may put on the wire. *)

Handles == {<<1, 2, 3, 4, 5, 6, 7, 8>>, <<17, 18, 19, 20, 21, 22, 23, 24>>}

\* The payload of a Write of n bytes.
Payload(n) == [i \in 1..n |-> 160 + i]

\* Offset and length of the Reads and Writes sent, and of the Trims: inside
\* the volume; lengths zero, one and two.
Ranges == {<<0, 0>>, <<1, 1>>, <<0, 2>>}
TrimRanges == {<<0, 2>>, <<1, 1>>}

\* A 28-byte request frame, big-endian.
Frame(magic, kind, handle, off, n) ==
  magic \o U32(kind) \o handle \o U64(off) \o U32(n)

BAD_MAGIC == <<37, 96, 149, 20>>

\* The requests a well-behaved kernel sends.
GoodFrames ==
  {Frame(REQUEST_MAGIC, k, h, r[1], r[2]) :
     k \in {CMD_READ, CMD_WRITE}, h \in Handles, r \in Ranges}
  \cup {Frame(REQUEST_MAGIC, CMD_TRIM, h, r[1], r[2]) :
          h \in Handles, r \in TrimRanges}
  \cup {Frame(REQUEST_MAGIC, CMD_FLUSH, h, 0, 0) : h \in Handles}

DiscFrame == Frame(REQUEST_MAGIC, CMD_DISC, CHOOSE x \in Handles : TRUE, 0, 0)

\* The fields of a frame, as the kernel that built it knows them.
FrameKind(f) == Val(SubSeq(f, 5, 8))
FrameHandle(f) == SubSeq(f, 9, 16)
FrameOff(f) == Val(SubSeq(f, 17, 24))
FrameLen(f) == Val(SubSeq(f, 25, 28))

\* What arrives on U for one entry of uIn: the frame and the payload after it.
Sent(f, pay) == [hdr |-> f, pay |-> pay]

GoodWire ==
  {Sent(f, IF FrameKind(f) = CMD_WRITE THEN Payload(FrameLen(f)) ELSE <<>>) :
     f \in GoodFrames}

\* What a kernel that breaks the protocol sends last: a bad magic, an unknown
\* command, a frame cut short, a Write whose payload is cut short.
BadWire ==
  LET h == CHOOSE x \in Handles : TRUE IN
    { Sent(Frame(BAD_MAGIC, CMD_READ, h, 0, 0), <<>>),
      Sent(Frame(REQUEST_MAGIC, 7, h, 0, 0), <<>>),
      Sent(SubSeq(Frame(REQUEST_MAGIC, CMD_READ, h, 0, 0), 1, REQUEST_LEN - 1), <<>>),
      Sent(Frame(REQUEST_MAGIC, CMD_WRITE, h, 0, 2), Payload(1)) }

Wire(tag) ==
  CASE tag = "req" -> GoodWire
    [] tag = "disc" -> {Sent(DiscFrame, <<>>)}
    [] tag = "bad" -> BadWire

----------------------------------------------------------------------------
(* History of the round in progress. *)

\* cur: nothing read yet in this round; the frame the kernel sent and the
\* loop accepted; the end of the stream; a frame the loop rejected.
NoReq == [st |-> "None", wire |-> <<>>]
Serving(f) == [st |-> "Serving", wire |-> f]
Eof == [st |-> "Eof", wire |-> <<>>]
Violation(f) == [st |-> "Violation", wire |-> f]

Ev(e, op, off, n, data, res) ==
  [e |-> e, op |-> op, off |-> off, n |-> n, data |-> data, res |-> res]

----------------------------------------------------------------------------

Init ==
  /\ hostLE \in BOOLEAN
  /\ pc = "open"
  /\ wpc = "idle"
  /\ uIn = <<>>
  /\ uOpen = FALSE
  /\ kFdOpen = FALSE
  /\ sockSet = FALSE
  /\ kShut = FALSE
  /\ discReq = FALSE
  /\ request = RequestDefault
  /\ reply = Zeros(REPLY_SIZE)
  /\ buffer = <<>>
  /\ memory = [i \in 1..MemSize |-> 192 + i]
  /\ cur = NoReq
  /\ evs = <<>>
  /\ unmounts = 0
  /\ device = "none"
  /\ umCalled = FALSE
  /\ loopRes = "none"
  /\ wres = "none"
  /\ firstErr = "none"
  /\ forced = FALSE
  /\ mountRes = "none"
  /\ blockSize = 0
  /\ payIn = <<>>

loopData == <<request, reply, buffer, memory, cur, evs, unmounts, payIn>>
workerVars == <<wpc, wres>>
kern == <<uIn, kFdOpen, sockSet, kShut, discReq>>
emb == <<device, umCalled>>
outcome == <<loopRes, firstErr, forced, mountRes>>

FirstErr(who) == IF firstErr = "none" THEN who ELSE firstErr

----------------------------------------------------------------------------
(* The kernel's side of the ioctls (nbd_ioctl! in src/nbd.rs). *)

\* NBD_DISCONNECT.  When the kernel holds a live socket it asks its peer to
\* disconnect: it queues a Disconnect command behind what it already sent,
\* or, failing that, shuts the socket down.  When it holds none there is
\* nothing to disconnect and the call changes nothing.
KDisconnect ==
  IF sockSet /\ ~kShut /\ ~discReq
  THEN /\ discReq' = TRUE
       /\ \/ /\ uOpen
             /\ uIn' = Append(uIn, "disc")
             /\ kShut' = kShut
          \/ /\ uIn' = uIn
             /\ kShut' = TRUE
  ELSE UNCHANGED <<uIn, kShut, discReq>>

----------------------------------------------------------------------------
(* mount(), lines 124-143: before the worker exists. *)

\* An early `?` return: mount returns the error at once.
EarlyReturn(e) ==
  /\ pc' = "returned"
  /\ mountRes' = e
  /\ UNCHANGED <<loopRes, firstErr, forced>>

Open ==
  /\ pc = "open"
  /\ \/ pc' = "geometry" /\ UNCHANGED outcome
     \/ EarlyReturn("open")
  /\ UNCHANGED <<hostLE, uOpen, blockSize, loopData, workerVars, kern, emb>>

Geometry ==
  /\ pc = "geometry"
  /\ \E bs \in BlockSizes :
       IF is_power_of_two(bs) /\ bs >= MIN_BLOCK_SIZE
       THEN pc' = "set_blksize" /\ blockSize' = bs
       ELSE pc' = "panicked" /\ blockSize' = blockSize
  /\ UNCHANGED <<hostLE, uOpen, loopData, workerVars, kern, emb, outcome>>

SetBlksize ==
  /\ pc = "set_blksize"
  /\ blockSize' = 0
  /\ \/ pc' = "set_size_blocks" /\ UNCHANGED outcome
     \/ EarlyReturn("set_blksize")
  /\ UNCHANGED <<hostLE, uOpen, loopData, workerVars, kern, emb>>

SetSizeBlocks ==
  /\ pc = "set_size_blocks"
  /\ \/ pc' = "clear_sock" /\ UNCHANGED outcome
     \/ EarlyReturn("set_size_blocks")
  /\ UNCHANGED <<hostLE, uOpen, blockSize, loopData, workerVars, kern, emb>>

ClearSock ==
  /\ pc = "clear_sock"
  /\ \/ pc' = "pair" /\ UNCHANGED outcome
     \/ EarlyReturn("clear_sock")
  /\ UNCHANGED <<hostLE, uOpen, blockSize, loopData, workerVars, kern, emb>>

Pair ==
  /\ pc = "pair"
  /\ \/ /\ pc' = "callback"
        /\ uOpen' = TRUE
        /\ kFdOpen' = TRUE
        /\ UNCHANGED outcome
     \/ /\ EarlyReturn("pair")
        /\ UNCHANGED <<uOpen, kFdOpen>>
  /\ UNCHANGED <<hostLE, blockSize, loopData, workerVars, emb,
                 uIn, sockSet, kShut, discReq>>

\* The scope closure returns Err(e) by `?`: its captures (both sockets when
\* the worker was not spawned, U otherwise) are dropped, then the scope waits.
ClosureFail(e) ==
  /\ loopRes' = e
  /\ firstErr' = FirstErr("loop")
  /\ pc' = "scope_wait"
  /\ uOpen' = FALSE
  /\ UNCHANGED <<forced, mountRes>>

\* A failed assertion in the closure: it unwinds, dropping U.
ClosurePanic ==
  /\ loopRes' = "panic"
  /\ pc' = "panic_wait"
  /\ uOpen' = FALSE
  /\ UNCHANGED <<firstErr, forced, mountRes>>

\* Lines 141-143, up to the call of the callback.
Callback ==
  /\ pc = "callback"
  /\ \/ /\ pc' = "in_callback"
        /\ device' = "held"
        /\ UNCHANGED <<uOpen, kFdOpen, outcome>>
     \/ /\ ClosureFail("try_clone")
        /\ kFdOpen' = FALSE
        /\ UNCHANGED device
  /\ UNCHANGED <<hostLE, blockSize, loopData, workerVars, umCalled,
                 uIn, sockSet, kShut, discReq>>

\* A variant in which the closure goes on after the callback failed.
CallbackReturnGoesOn ==
  /\ pc = "in_callback"
  /\ pc' = "spawn"
  /\ \/ UNCHANGED outcome
     \/ /\ loopRes' = "callback"
        /\ firstErr' = FirstErr("loop")
        /\ UNCHANGED <<forced, mountRes>>
  /\ UNCHANGED <<hostLE, blockSize, loopData, workerVars, emb, uOpen, kFdOpen,
                 uIn, sockSet, kShut, discReq>>

\* The callback returns.
CallbackReturn ==
  /\ pc = "in_callback"
  /\ \/ /\ pc' = "spawn"
        /\ UNCHANGED <<uOpen, kFdOpen, outcome>>
     \/ /\ ClosureFail("callback")
        /\ kFdOpen' = FALSE
  /\ UNCHANGED <<hostLE, blockSize, loopData, workerVars, emb,
                 uIn, sockSet, kShut, discReq>>

\* Lines 145-165: the worker is spawned; request and buffer are created.
Spawn ==
  /\ pc = "spawn"
  /\ pc' = "read_req"
  /\ wpc' = "set_sock"
  /\ request' = RequestDefault
  /\ buffer' = <<>>
  /\ UNCHANGED <<hostLE, uOpen, blockSize, reply, memory, cur, evs, unmounts,
                 payIn, wres, kern, emb, outcome>>

----------------------------------------------------------------------------
(* The request loop, lines 167-220. *)

\* The closure's locals (request, reply, buffer) go out of scope.
DropLocals ==
  /\ request' = RequestDefault
  /\ reply' = Zeros(REPLY_SIZE)
  /\ buffer' = <<>>

\* A variant of the match whose Write arm calls the backend without reading
\* the payload first.
ArmSkipsPayload(c) ==
  CASE c = "Read" -> "rd_call"
    [] c = "Write" -> "wr_call"
    [] c = "Flush" -> "fl_call"
    [] c = "Trim" -> "tr_call"
    [] c = "Disconnect" -> "disc"

\* A variant of the match whose Trim arm is served as a Flush.
ArmTrimAsFlush(c) ==
  CASE c = "Read" -> "rd_call"
    [] c = "Write" -> "wr_payload"
    [] c = "Flush" -> "fl_call"
    [] c = "Trim" -> "fl_call"
    [] c = "Disconnect" -> "disc"

\* Where the match of line 179 goes.
Arm(c) ==
  CASE c = "Read" -> "rd_call"
    [] c = "Write" -> "wr_payload"
    [] c = "Flush" -> "fl_call"
    [] c = "Trim" -> "tr_call"
    [] c = "Disconnect" -> "disc"

\* A variant of the checks without the assertion on the magic.
AcceptedAnyMagic(n, req) ==
  /\ n = REQUEST_LEN
  /\ command(req) # "Unknown"

\* The asserts of lines 174-175 and the unreachable!() of line 218.
Accepted(n, req) ==
  /\ n = REQUEST_LEN
  /\ is_magic_valid(req)
  /\ command(req) # "Unknown"

\* Lines 168-179: read a request, check it, build the reply, dispatch.
LoopRead ==
  /\ pc = "read_req"
  /\ \/ /\ uIn # <<>>
        /\ \E w \in Wire(Head(uIn)) :
             LET n == Min(REQUEST_LEN, Len(w.hdr))
                 req == SubSeq(w.hdr, 1, n) \o SubSeq(request, n + 1, REQUEST_SIZE)
             IN /\ uIn' = Tail(uIn)
                /\ evs' = <<>>
                /\ IF Accepted(n, req)
                   THEN /\ request' = req
                        /\ reply' = new_reply_for_request(req)
                        /\ cur' = Serving(w.hdr)
                        /\ pc' = Arm(command(req))
                        /\ payIn' = w.pay
                        /\ UNCHANGED <<buffer, uOpen, outcome>>
                   ELSE /\ ClosurePanic
                        /\ DropLocals
                        /\ cur' = Violation(w.hdr)
                        /\ payIn' = <<>>
     \/ /\ uIn = <<>>
        /\ KGone
        /\ pc' = "drop"
        /\ cur' = Eof
        /\ evs' = <<>>
        /\ UNCHANGED <<uIn, uOpen, request, reply, buffer, payIn, outcome>>
     \/ /\ uIn = <<>>
        /\ KGone
        /\ ClosureFail("loop_io")
        /\ DropLocals
        /\ UNCHANGED <<uIn, cur, evs, payIn>>
  /\ UNCHANGED <<hostLE, blockSize, memory, unmounts, workerVars, emb,
                 kFdOpen, sockSet, kShut, discReq>>

\* reply.set_errno(err.raw_os_error().unwrap_or(EIO as i32)) on an error.
Answer(res) == IF res.ok THEN reply ELSE set_errno(reply, RawOsErrorOr(res))

\* A variant of SendAll that sends no reply frame once the backend failed.
SendAllUnlessFailed(what, bytes, next) ==
  IF what = "reply" /\ RepError(bytes) # U32(0)
  THEN /\ pc' = next
       /\ UNCHANGED <<evs, request, reply, buffer, uOpen, outcome>>
  ELSE IF bytes # <<>> /\ KGone
  THEN /\ ClosureFail("loop_io")
       /\ DropLocals
       /\ UNCHANGED evs
  ELSE /\ evs' = Append(evs, Ev(what, "", 0, 0, bytes, Ok))
       /\ pc' = next
       /\ UNCHANGED <<request, reply, buffer, uOpen, outcome>>

\* userspace_socket.write_all(bytes)?, then on to `next`.  Writing no bytes
\* does not touch the socket.
SendAll(what, bytes, next) ==
  IF bytes # <<>> /\ KGone
  THEN /\ ClosureFail("loop_io")
       /\ DropLocals
       /\ UNCHANGED evs
  ELSE /\ evs' = Append(evs, Ev(what, "", 0, 0, bytes, Ok))
       /\ pc' = next
       /\ UNCHANGED <<request, reply, buffer, uOpen, outcome>>

\* Lines 181-185.
BackendRead ==
  /\ pc = "rd_call"
  /\ \E res \in Results :
       LET sized == Resize(buffer, len(request))
           got == IF res.ok THEN RamRead(memory, offset(request), Len(sized))
                  ELSE sized
       IN /\ buffer' = got
          /\ reply' = Answer(res)
          /\ evs' = Append(evs, Ev("call", "read", offset(request), Len(sized), got, res))
  /\ pc' = "rd_reply"
  /\ UNCHANGED <<hostLE, uOpen, blockSize, request, memory, cur, unmounts,
                 payIn, workerVars, kern, emb, outcome>>

\* Line 187.
ReadReply ==
  /\ pc = "rd_reply"
  /\ SendAll("reply", reply, "rd_payload")
  /\ UNCHANGED <<hostLE, blockSize, memory, cur, unmounts, payIn, workerVars,
                 kern, emb>>

\* A variant of line 188 that sends the payload only when the read succeeded.
ReadPayloadIfOk ==
  /\ pc = "rd_payload"
  /\ IF RepError(reply) # U32(0)
     THEN /\ pc' = "next"
          /\ UNCHANGED <<evs, request, reply, buffer, uOpen, outcome>>
     ELSE SendAll("payload_out", buffer, "next")
  /\ UNCHANGED <<hostLE, blockSize, memory, cur, unmounts, payIn, workerVars,
                 kern, emb>>

\* Line 188.
ReadPayload ==
  /\ pc = "rd_payload"
  /\ SendAll("payload_out", buffer, "next")
  /\ UNCHANGED <<hostLE, blockSize, memory, cur, unmounts, payIn, workerVars,
                 kern, emb>>

\* Lines 191-192: resize, then read_exact, which waits for all the bytes and
\* fails when the stream ends first.
WritePayload ==
  /\ pc = "wr_payload"
  /\ LET n == len(request) IN
       IF Len(payIn) >= n
       THEN /\ buffer' = SubSeq(payIn, 1, n)
            /\ payIn' = SubSeq(payIn, n + 1, Len(payIn))
            /\ evs' = Append(evs, Ev("payload_in", "", 0, n, SubSeq(payIn, 1, n), Ok))
            /\ pc' = "wr_call"
            /\ UNCHANGED <<request, reply, uOpen, outcome>>
       ELSE /\ KGone
            /\ payIn' = <<>>
            /\ ClosureFail("loop_io")
            /\ DropLocals
            /\ UNCHANGED evs
  /\ UNCHANGED <<hostLE, blockSize, memory, cur, unmounts, workerVars, emb,
                 kern>>

\* Lines 194-196.
BackendWrite ==
  /\ pc = "wr_call"
  /\ \E res \in Results :
       /\ memory' = IF res.ok THEN RamWrite(memory, offset(request), buffer)
                    ELSE memory
       /\ reply' = Answer(res)
       /\ evs' = Append(evs, Ev("call", "write", offset(request), Len(buffer), buffer, res))
  /\ pc' = "wr_reply"
  /\ UNCHANGED <<hostLE, uOpen, blockSize, request, buffer, cur, unmounts,
                 payIn, workerVars, kern, emb, outcome>>

\* Line 198.
WriteReply ==
  /\ pc = "wr_reply"
  /\ SendAll("reply", reply, "next")
  /\ UNCHANGED <<hostLE, blockSize, memory, cur, unmounts, payIn, workerVars,
                 kern, emb>>

\* Lines 201-203.
BackendFlush ==
  /\ pc = "fl_call"
  /\ \E res \in Results :
       /\ reply' = Answer(res)
       /\ evs' = Append(evs, Ev("call", "flush", 0, 0, <<>>, res))
  /\ pc' = "fl_reply"
  /\ UNCHANGED <<hostLE, uOpen, blockSize, request, buffer, memory, cur,
                 unmounts, payIn, workerVars, kern, emb, outcome>>

\* Line 205.
FlushReply ==
  /\ pc = "fl_reply"
  /\ SendAll("reply", reply, "next")
  /\ UNCHANGED <<hostLE, blockSize, memory, cur, unmounts, payIn, workerVars,
                 kern, emb>>

\* Lines 208-210.
BackendTrim ==
  /\ pc = "tr_call"
  /\ \E res \in Results :
       /\ reply' = Answer(res)
       /\ evs' = Append(evs, Ev("call", "trim", offset(request), len(request), <<>>, res))
  /\ pc' = "tr_reply"
  /\ UNCHANGED <<hostLE, uOpen, blockSize, request, buffer, memory, cur,
                 unmounts, payIn, workerVars, kern, emb, outcome>>

\* Line 212.
TrimReply ==
  /\ pc = "tr_reply"
  /\ SendAll("reply", reply, "next")
  /\ UNCHANGED <<hostLE, blockSize, memory, cur, unmounts, payIn, workerVars,
                 kern, emb>>

\* Line 220: the end of the loop body; reply goes out of scope and the loop
\* starts over.
Continue ==
  /\ pc = "next"
  /\ pc' = "read_req"
  /\ reply' = Zeros(REPLY_SIZE)
  /\ cur' = NoReq
  /\ evs' = <<>>
  /\ UNCHANGED <<hostLE, uOpen, blockSize, request, buffer, memory, unmounts,
                 payIn, workerVars, kern, emb, outcome>>

\* A variant of the Disconnect arm without the break.
DisconnectNoBreak ==
  /\ pc = "disc"
  /\ unmounts' = unmounts + 1
  /\ evs' = Append(evs, Ev("call", "unmount", 0, 0, <<>>, Ok))
  /\ pc' = "next"
  /\ UNCHANGED <<hostLE, uOpen, blockSize, request, reply, buffer, memory, cur,
                 payIn, workerVars, kern, emb, outcome>>

\* Lines 215-216: device.unmount(); break.
Disconnect ==
  /\ pc = "disc"
  /\ unmounts' = unmounts + 1
  /\ evs' = Append(evs, Ev("call", "unmount", 0, 0, <<>>, Ok))
  /\ pc' = "drop"
  /\ UNCHANGED <<hostLE, uOpen, blockSize, request, reply, buffer, memory, cur,
                 payIn, workerVars, kern, emb, outcome>>

\* A variant without line 222: the closure goes on to join with U open.
DropKeepsOpen ==
  /\ pc = "drop"
  /\ pc' = "join"
  /\ UNCHANGED <<hostLE, uOpen, blockSize, loopData, workerVars, kern, emb,
                 outcome>>

\* Line 222: drop(userspace_socket).
Drop ==
  /\ pc = "drop"
  /\ uOpen' = FALSE
  /\ pc' = "join"
  /\ UNCHANGED <<hostLE, blockSize, loopData, workerVars, kern, emb, outcome>>

\* A variant of line 223 that does not wait for the worker and returns Ok.
JoinDetached ==
  /\ pc = "join"
  /\ loopRes' = "ok"
  /\ pc' = "post"
  /\ DropLocals
  /\ UNCHANGED <<hostLE, uOpen, blockSize, memory, cur, evs, unmounts, payIn,
                 workerVars, kern, emb, firstErr, forced, mountRes>>

\* Line 223: thread.join().unwrap() is the closure's result.
Join ==
  /\ pc = "join"
  /\ wpc = "exited"
  /\ loopRes' = wres
  /\ pc' = "post"
  /\ DropLocals
  /\ UNCHANGED <<hostLE, uOpen, blockSize, memory, cur, evs, unmounts, payIn,
                 workerVars, kern, emb, firstErr, forced, mountRes>>

\* A variant of the end of the scope that does not wait for the worker.
ScopeNoWait ==
  /\ pc = "scope_wait"
  /\ pc' = "post"
  /\ UNCHANGED <<hostLE, uOpen, blockSize, loopData, workerVars, kern, emb,
                 outcome>>

\* The end of the scope after the closure returned early: every thread
\* spawned in it is joined, its result dropped.
ScopeWait ==
  /\ pc = "scope_wait"
  /\ wpc \in {"idle", "exited"}
  /\ pc' = "post"
  /\ UNCHANGED <<hostLE, uOpen, blockSize, loopData, workerVars, kern, emb,
                 outcome>>

\* The end of the scope after the closure panicked: the threads are joined
\* and the panic resumes inside scope(), past lines 226-230.
PanicWait ==
  /\ pc = "panic_wait"
  /\ wpc \in {"idle", "exited"}
  /\ pc' = "panicked"
  /\ UNCHANGED <<hostLE, uOpen, blockSize, loopData, workerVars, kern, emb,
                 outcome>>

\* Lines 226-230.
Post ==
  /\ pc = "post"
  /\ IF loopRes # "ok"
     THEN forced' = TRUE /\ KDisconnect
     ELSE UNCHANGED <<forced, uIn, kShut, discReq>>
  /\ mountRes' = loopRes
  /\ pc' = "returned"
  /\ UNCHANGED <<hostLE, uOpen, blockSize, loopData, workerVars, emb,
                 kFdOpen, sockSet, loopRes, firstErr>>

----------------------------------------------------------------------------
(* The worker closure, lines 145-162. *)

\* The worker closure returns r: kernel_socket, which it owns, is dropped.
WorkerExit(r) ==
  /\ wpc' = "exited"
  /\ wres' = r
  /\ kFdOpen' = FALSE
  /\ firstErr' = IF r = "ok" THEN firstErr ELSE FirstErr("worker")

\* Line 146: nbd::set_sock(file, kernel_socket.as_raw_fd())?
WSetSock ==
  /\ wpc = "set_sock"
  /\ \/ /\ wpc' = "set_flags"
        /\ sockSet' = TRUE
        /\ UNCHANGED <<wres, kFdOpen, firstErr>>
     \/ /\ WorkerExit("set_sock")
        /\ UNCHANGED sockSet
  /\ UNCHANGED <<hostLE, pc, uOpen, blockSize, loopData, emb, uIn, kShut,
                 discReq, loopRes, forced, mountRes>>

\* Line 151: let _ = nbd::set_flags(..): either outcome is dropped.
WSetFlags ==
  /\ wpc = "set_flags"
  /\ \E r \in {"ok", "set_flags"} : wpc' = "do_it"
  /\ UNCHANGED <<hostLE, pc, uOpen, blockSize, loopData, emb, kern, wres,
                 outcome>>

\* Line 153: nbd::do_it(file) is entered, or refused at once.
WDoIt ==
  /\ wpc = "do_it"
  /\ \/ /\ wpc' = "in_do_it"
        /\ UNCHANGED <<wres, kFdOpen, firstErr>>
     \/ WorkerExit("do_it")
  /\ UNCHANGED <<hostLE, pc, uOpen, blockSize, loopData, emb, uIn, sockSet,
                 kShut, discReq, loopRes, forced, mountRes>>

\* Line 153: do_it returns once the connection is over: the kernel shut K
\* down, or the peer closed U.  After a requested disconnect it reports
\* success; otherwise it may report the error that ended the connection.
WDoItReturn ==
  /\ wpc = "in_do_it"
  /\ kShut \/ ~uOpen
  /\ kShut' = TRUE
  /\ \/ /\ wpc' = "clear_sock"
        /\ UNCHANGED <<wres, kFdOpen, firstErr>>
     \/ /\ ~discReq
        /\ WorkerExit("do_it")
  /\ UNCHANGED <<hostLE, pc, uOpen, blockSize, loopData, emb, uIn, sockSet,
                 discReq, loopRes, forced, mountRes>>

\* Line 158: let _ = nbd::clear_sock(file): the kernel lets go of K.
WClearSock ==
  /\ wpc = "clear_sock"
  /\ \E r \in {"ok", "clear_sock"} : wpc' = "clear_que"
  /\ sockSet' = FALSE
  /\ UNCHANGED <<hostLE, pc, uOpen, blockSize, loopData, emb, uIn, kFdOpen,
                 kShut, discReq, wres, outcome>>

\* Lines 159-161: let _ = nbd::clear_que(file); Ok(())
WClearQue ==
  /\ wpc = "clear_que"
  /\ \E r \in {"ok", "clear_que"} : WorkerExit("ok")
  /\ UNCHANGED <<hostLE, pc, uOpen, blockSize, loopData, emb, uIn, sockSet,
                 kShut, discReq, loopRes, forced, mountRes>>

----------------------------------------------------------------------------
(* The kernel while do_it runs. *)

CanSend == wpc = "in_do_it" /\ ~kShut /\ uOpen

\* The kernel sends a request (for a Write, with its payload).
KernelSend ==
  /\ CanSend
  /\ ~discReq
  /\ Len(uIn) < MaxQueued
  /\ uIn' = Append(uIn, "req")
  /\ UNCHANGED <<hostLE, pc, uOpen, blockSize, loopData, workerVars, emb,
                 kFdOpen, sockSet, kShut, discReq, outcome>>

\* A kernel that breaks the protocol; what it sends then is the last thing
\* it sends.
KernelSendBad ==
  /\ CanSend
  /\ ~discReq
  /\ Len(uIn) < MaxQueued
  /\ uIn' = Append(uIn, "bad")
  /\ kShut' = TRUE
  /\ UNCHANGED <<hostLE, pc, uOpen, blockSize, loopData, workerVars, emb,
                 kFdOpen, sockSet, discReq, outcome>>

\* The kernel gives the connection up on its own (a request timed out, the
\* worker was signalled): it shuts K down.
KernelShutdown ==
  /\ wpc = "in_do_it"
  /\ ~kShut
  /\ kShut' = TRUE
  /\ UNCHANGED <<hostLE, pc, uOpen, blockSize, loopData, workerVars, emb,
                 uIn, kFdOpen, sockSet, discReq, outcome>>

----------------------------------------------------------------------------
(* The embedder. *)

\* Device::unmount, lines 106-108, from any thread while mount runs.
DeviceUnmount ==
  /\ device = "held"
  /\ ~umCalled
  /\ pc \notin {"returned", "panicked"}
  /\ umCalled' = TRUE
  /\ KDisconnect
  /\ UNCHANGED <<hostLE, pc, uOpen, blockSize, loopData, workerVars, device,
                 kFdOpen, sockSet, outcome>>

----------------------------------------------------------------------------

Next ==
  \/ Open \/ Geometry \/ SetBlksize \/ SetSizeBlocks \/ ClearSock \/ Pair
  \/ Callback \/ CallbackReturn \/ Spawn
  \/ LoopRead
  \/ BackendRead \/ ReadReply \/ ReadPayload
  \/ WritePayload \/ BackendWrite \/ WriteReply
  \/ BackendFlush \/ FlushReply
  \/ BackendTrim \/ TrimReply
  \/ Continue \/ Disconnect
  \/ Drop \/ Join \/ ScopeWait \/ PanicWait \/ Post
  \/ WSetSock \/ WSetFlags \/ WDoIt \/ WDoItReturn \/ WClearSock \/ WClearQue
  \/ KernelSend \/ KernelSendBad \/ KernelShutdown
  \/ DeviceUnmount

Spec == Init /\ [][Next]_vars

----------------------------------------------------------------------------
(* What the round in progress did, read off its history. *)

Replies == SelectSeq(evs, LAMBDA x : x.e = "reply")
Calls == SelectSeq(evs, LAMBDA x : x.e = "call")
Writes == SelectSeq(evs, LAMBDA x : x.e \in {"reply", "payload_out"})

\* The loop accepted a request of this kind and is serving it.
ServingKind(k) == cur.st = "Serving" /\ FrameKind(cur.wire) = k

DataKinds == {CMD_READ, CMD_WRITE, CMD_FLUSH, CMD_TRIM}

----------------------------------------------------------------------------
(* The claims. *)

\* C1: every accepted Read, Write, Flush or Trim request gets exactly one
\* 16-byte reply frame, written before the loop goes back to read the next
\* request, whether the backend succeeded or failed; never more than one.
C1_OneReplyPerRequest ==
  /\ Len(Replies) <= 1
  /\ \A i \in 1..Len(Replies) : Len(Replies[i].data) = 16
  /\ pc = "next" =>
       /\ cur.st = "Serving"
       /\ FrameKind(cur.wire) \in DataKinds
       /\ Len(Replies) = 1
  /\ pc = "read_req" => evs = <<>> /\ cur = NoReq

\* A round that ends with one reply although the backend failed.
C1_Witness ==
  /\ pc = "next"
  /\ Len(Replies) = 1
  /\ Len(Calls) = 1
  /\ ~Calls[1].res.ok

\* C2: the reply to a Read of length L is followed at once by exactly L
\* payload bytes, whether the read succeeded or failed; nothing follows the
\* reply to any other command.
C2_ReadPayloadLength ==
  /\ \A i \in 1..Len(evs) :
       evs[i].e = "payload_out" =>
         /\ ServingKind(CMD_READ)
         /\ i > 1
         /\ evs[i - 1].e = "reply"
         /\ Len(evs[i].data) = FrameLen(cur.wire)
  /\ pc = "next" =>
       IF ServingKind(CMD_READ)
       THEN /\ Len(Writes) = 2
            /\ Writes[1].e = "reply"
            /\ Writes[2].e = "payload_out"
       ELSE /\ Len(Writes) = 1
            /\ Writes[1].e = "reply"

\* A failed Read of two bytes served from a buffer that held one byte.
C2_Witness ==
  /\ pc = "next"
  /\ ServingKind(CMD_READ)
  /\ FrameLen(cur.wire) = 2
  /\ ~Calls[1].res.ok
  /\ Len(Writes) = 2
  /\ Writes[2].data = <<161, 0>>

\* C3: for a Write of length L the L payload bytes the kernel sent are read
\* from U first, backend.write then gets exactly those bytes and the
\* request's offset, and the reply is written after it returned, with
\* nothing after the reply.
C3_WritePayloadFirst ==
  ServingKind(CMD_WRITE) =>
    /\ Len(evs) <= 3
    /\ Len(evs) >= 1 =>
         /\ evs[1].e = "payload_in"
         /\ evs[1].data = Payload(FrameLen(cur.wire))
         /\ payIn = <<>>
    /\ Len(evs) >= 2 =>
         /\ evs[2].e = "call"
         /\ evs[2].op = "write"
         /\ evs[2].off = FrameOff(cur.wire)
         /\ evs[2].data = evs[1].data
    /\ Len(evs) >= 3 => evs[3].e = "reply"
    /\ pc = "next" => Len(evs) = 3

\* A Write of two bytes refused by the backend with an errno, and answered.
C3_Witness ==
  /\ pc = "next"
  /\ ServingKind(CMD_WRITE)
  /\ FrameLen(cur.wire) = 2
  /\ Len(evs) = 3
  /\ evs[2].res = Err(30)

\* The error field a reply must carry on the wire after a backend result.
WireError(res) ==
  IF res.ok THEN <<0, 0, 0, 0>>
  ELSE IF res.has THEN <<0, 0, 0, res.errno>>
  ELSE <<0, 0, 0, 5>>

\* C4: the error field of a reply is 0 after a backend success, the errno in
\* big-endian after a failure that carries one, EIO in big-endian after a
\* failure that carries none.
C4_ErrorField ==
  \A i \in 1..Len(evs) :
    evs[i].e = "reply" =>
      /\ i > 1
      /\ evs[i - 1].e = "call"
      /\ SubSeq(evs[i].data, 5, 8) = WireError(evs[i - 1].res)

\* A Flush that failed without an errno, answered with EIO.
C4_Witness ==
  /\ pc = "next"
  /\ ServingKind(CMD_FLUSH)
  /\ Calls[1].res = ErrNone
  /\ SubSeq(Replies[1].data, 5, 8) = <<0, 0, 0, 5>>

\* The reply magic the specification names (0x66446698), on the wire.
SpecReplyMagicBytes == <<102, 68, 102, 152>>

\* C5 as stated: every reply frame written to U starts with the bytes of
\* 0x66446698, most significant first.
C5_MagicAsStated ==
  \A i \in 1..Len(evs) :
    evs[i].e = "reply" => SubSeq(evs[i].data, 1, 4) = SpecReplyMagicBytes

\* C5: every reply frame written to U starts with the bytes of REPLY_MAGIC,
\* 0x67446698, most significant first, whatever the host's byte order.
C5_ReplyMagic ==
  \A i \in 1..Len(evs) :
    evs[i].e = "reply" => SubSeq(evs[i].data, 1, 4) = <<103, 68, 102, 152>>

\* A reply written on a little-endian host, where the magic is swapped.
C5_Witness ==
  /\ hostLE
  /\ Len(Replies) = 1
  /\ SubSeq(Replies[1].data, 1, 4) = <<103, 68, 102, 152>>

\* C6: the handle field of every reply written to U is, byte for byte, the
\* handle field of the request the loop read last, on either byte order.
C6_HandleEchoed ==
  \A i \in 1..Len(evs) :
    evs[i].e = "reply" =>
      /\ cur.st = "Serving"
      /\ SubSeq(evs[i].data, 9, 16) = FrameHandle(cur.wire)

\* A reply that echoes the second handle on a little-endian host.
C6_Witness ==
  /\ hostLE
  /\ Len(Replies) = 1
  /\ FrameHandle(cur.wire) = <<17, 18, 19, 20, 21, 22, 23, 24>>
  /\ SubSeq(Replies[1].data, 9, 16) = <<17, 18, 19, 20, 21, 22, 23, 24>>

\* The backend operation that serves a command.
KindOp(k) ==
  CASE k = CMD_READ -> "read"
    [] k = CMD_WRITE -> "write"
    [] k = CMD_FLUSH -> "flush"
    [] k = CMD_TRIM -> "trim"
    [] k = CMD_DISC -> "unmount"

\* Within a round: at most one backend call, the one the command read asks
\* for, with its offset and length, made before the reply; the round ends
\* only after that call returned and its reply was written.
C7_Round ==
  /\ Len(Calls) <= 1
  /\ \A i \in 1..Len(evs) :
       evs[i].e = "call" =>
         /\ cur.st = "Serving"
         /\ evs[i].op = KindOp(FrameKind(cur.wire))
         /\ evs[i].op \in {"read", "write", "trim"} =>
              /\ evs[i].off = FrameOff(cur.wire)
              /\ evs[i].n = FrameLen(cur.wire)
         /\ \A j \in 1..(i - 1) : evs[j].e \notin {"reply", "payload_out"}
  /\ pc = "next" =>
       /\ Len(Calls) = 1
       /\ Len(Replies) = 1
       /\ evs[Len(evs)].e \in {"reply", "payload_out"}
  /\ pc \in {"rd_call", "wr_payload", "wr_call", "fl_call", "tr_call", "disc"} =>
       Calls = <<>>

\* A step in which the backend is called is a step of the loop, not of the
\* worker, and starts from one of the call sites of the loop.
C7_Step ==
  (evs' # evs /\ evs' # <<>> /\ evs'[Len(evs')].e = "call") =>
    /\ wpc' = wpc
    /\ pc \in {"rd_call", "wr_call", "fl_call", "tr_call", "disc"}

C8_DisconnectAsStated ==
  /\ unmounts <= 1
  /\ unmounts = 1 => ServingKind(CMD_DISC)
  /\ ServingKind(CMD_DISC) =>
       /\ pc \in {"disc", "drop", "join", "post", "returned"}
       /\ evs = IF pc = "disc" THEN <<>>
                ELSE <<Ev("call", "unmount", 0, 0, <<>>, Ok)>>
       /\ unmounts = IF pc = "disc" THEN 0 ELSE 1
       /\ pc = "returned" => mountRes = "ok"

\* C8: once the loop reads a Disconnect command, backend.unmount() runs once,
\* nothing is written to U for it, the loop leaves without reading again or
\* calling the backend again, the worker is joined, and mount returns what
\* the worker returned: success, or the error of a do_it the kernel refused.
C8_Disconnect ==
  /\ unmounts <= 1
  /\ unmounts = 1 => ServingKind(CMD_DISC)
  /\ ServingKind(CMD_DISC) =>
       /\ pc \in {"disc", "drop", "join", "post", "returned"}
       /\ evs = IF pc = "disc" THEN <<>>
                ELSE <<Ev("call", "unmount", 0, 0, <<>>, Ok)>>
       /\ unmounts = IF pc = "disc" THEN 0 ELSE 1
       /\ pc \in {"post", "returned"} =>
            /\ wpc = "exited"
            /\ loopRes = wres
            /\ wres \in {"ok", "do_it"}
       /\ pc = "returned" =>
            /\ mountRes = wres
            /\ forced <=> wres # "ok"

\* mount returned after the loop read a Disconnect command.
C8_Witness ==
  /\ pc = "returned"
  /\ ServingKind(CMD_DISC)
  /\ unmounts = 1
  /\ evs = <<Ev("call", "unmount", 0, 0, <<>>, Ok)>>
  /\ mountRes = "ok"

\* C9 as stated: after the loop read end-of-stream, mount returns success,
\* the worker joined, and the backend is not called.
C9_EofAsStated ==
  cur = Eof =>
    /\ evs = <<>>
    /\ pc \in {"post", "returned"} => wpc = "exited"
    /\ pc = "returned" => mountRes = "ok"

\* C9: after the loop read end-of-stream it calls the backend no more, joins
\* the worker, and mount returns what the worker returned: success, or the
\* error of the worker's set_sock or do_it, after the forced disconnect.
C9_Eof ==
  cur = Eof =>
    /\ evs = <<>>
    /\ pc \in {"drop", "join", "post", "returned"}
    /\ pc \in {"post", "returned"} => wpc = "exited" /\ loopRes = wres
    /\ pc = "returned" =>
         /\ mountRes = wres
         /\ forced <=> wres # "ok"

\* mount returned the error of a do_it that ended in an error, after the loop
\* read end-of-stream.
C9_Witness ==
  /\ cur = Eof
  /\ pc = "returned"
  /\ wpc = "exited"
  /\ wres = "do_it"
  /\ mountRes = "do_it"
  /\ forced

\* The loop waits for a request on a connection that nothing is ending.
WaitsOnLiveLink ==
  /\ pc = "read_req"
  /\ uIn = <<>>
  /\ wpc = "in_do_it"
  /\ uOpen
  /\ ~KGone
  /\ ~discReq

\* C10 as stated: once Device::unmount was called, whenever that was, the
\* loop is on its way out (it does not wait again on a connection that
\* nothing is ending), and backend.unmount() has run exactly when a
\* Disconnect command was read.
C10_UnmountEndsLoop ==
  /\ umCalled => ~WaitsOnLiveLink
  /\ unmounts > 0 <=> (ServingKind(CMD_DISC) /\ pc # "disc")

\* mount is over: it returned, or it unwound to its caller with a panic.
Finished == pc \in {"returned", "panicked"}

\* C11: once mount is past the scope (and so when it returned or unwound),
\* the worker, if it was spawned, has terminated; mount is never over while
\* the worker still runs.
C11_WorkerJoined ==
  pc \in {"post", "returned", "panicked"} => wpc \in {"idle", "exited"}

\* The loop failed on socket I/O while the worker ran, and mount returned
\* with the worker terminated.
C11_Witness ==
  /\ pc = "returned"
  /\ mountRes = "loop_io"
  /\ wpc = "exited"
  /\ wres = "ok"

\* C12 as stated: when mount returns an error of a configuration ioctl, of
\* on_ready, of socket I/O in the loop or of the worker, the forced
\* disconnect was issued and the error returned is the original one.  (A
\* failed open is left out: there is no device node to disconnect.)
C12_ForcedOnFatalReturn ==
  (pc = "returned" /\ mountRes \notin {"ok", "open"}) =>
    /\ forced
    /\ loopRes # "none" => mountRes = loopRes

\* C13 as stated: when the loop reads a frame that begins with an invalid
\* magic, the driver aborts and the forced disconnect is issued.
C13_BadMagicForcesDisconnect ==
  /\ (cur.st = "Violation" /\ SubSeq(cur.wire, 1, 4) = BAD_MAGIC) =>
       pc \in {"panic_wait", "panicked"}
  /\ (cur.st = "Violation" /\ SubSeq(cur.wire, 1, 4) = BAD_MAGIC /\ Finished) =>
       forced

\* A frame as the protocol has it: 28 bytes, the request magic, a kind 0..4.
WellFormed(f) ==
  /\ Len(f) = 28
  /\ SubSeq(f, 1, 4) = <<37, 96, 149, 19>>
  /\ FrameKind(f) \in 0..4

\* C14: a frame that is short, has a wrong magic or an unknown kind is never
\* dispatched: whatever the loop serves is well-formed, and on reading such a
\* frame the driver aborts with no backend call, no reply and no further
\* read.
C14_ViolationNotDispatched ==
  /\ cur.st = "Serving" => WellFormed(cur.wire)
  /\ evs # <<>> => cur.st = "Serving"
  /\ cur.st = "Violation" =>
       /\ ~WellFormed(cur.wire)
       /\ evs = <<>>
       /\ unmounts = 0
       /\ pc \in {"panic_wait", "panicked"}

\* The driver aborted on a frame with an unknown kind.
C14_Witness ==
  /\ cur.st = "Violation"
  /\ Len(cur.wire) = 28
  /\ FrameKind(cur.wire) = 7
  /\ pc = "panicked"

\* C15 as stated: mount returns the error that was produced first: the
\* worker's when the worker failed before the loop did, the loop's when the
\* loop failed first.
C15_FirstErrorReturned ==
  pc = "returned" =>
    /\ firstErr = "worker" => mountRes = wres
    /\ firstErr = "loop" => mountRes = loopRes /\ loopRes \notin {"ok", wres}

\* The storage holds what a successful Write just put there, and a successful
\* Read answers with error 0 and the bytes the storage holds at its range.
C16_Stored ==
  /\ \A i \in 1..Len(evs) :
       (evs[i].e = "call" /\ evs[i].op = "write" /\ evs[i].res.ok) =>
         /\ evs[i].data = Payload(FrameLen(cur.wire))
         /\ SubSeq(memory, FrameOff(cur.wire) + 1,
                   FrameOff(cur.wire) + FrameLen(cur.wire)) = evs[i].data
  /\ (pc = "next" /\ ServingKind(CMD_READ) /\ Calls[1].res.ok) =>
       /\ SubSeq(Writes[1].data, 5, 8) = <<0, 0, 0, 0>>
       /\ Writes[2].data = SubSeq(memory, FrameOff(cur.wire) + 1,
                                  FrameOff(cur.wire) + FrameLen(cur.wire))

\* The storage changes only when a Write is served, and only inside the
\* range of that Write: Reads, Flushes, Trims and Writes elsewhere leave the
\* bytes of an earlier Write alone.
C16_Kept ==
  memory' # memory =>
    /\ pc = "wr_call"
    /\ ServingKind(CMD_WRITE)
    /\ \A i \in 1..MemSize :
         (i <= FrameOff(cur.wire) \/ i > FrameOff(cur.wire) + FrameLen(cur.wire))
           => memory'[i] = memory[i]

\* C16: with a byte-array backend whose operations succeed, a Write(off, buf)
\* followed, after any Reads, Flushes and Writes that do not overlap it, by a
\* Read(off, len(buf)) is answered with error 0 and payload buf.
C16_RoundTrip == []C16_Stored /\ [][C16_Kept]_vars

\* A Read of the second byte answered with the byte a Write(1, 1) stored.
C16_Witness ==
  /\ pc = "next"
  /\ ServingKind(CMD_READ)
  /\ FrameOff(cur.wire) = 1
  /\ FrameLen(cur.wire) = 1
  /\ Calls[1].res.ok
  /\ memory = <<193, 161>>
  /\ Writes[2].data = <<161>>

\* C17 as stated: once do_it has returned, with success or with an error, the
\* worker has called clear_sock (so the kernel no longer holds K) and then
\* clear_que by the time it exits, and its result is do_it's, whatever the
\* two calls returned.
C17_CleanupAfterDoIt ==
  /\ (wpc = "exited" /\ wres \in {"ok", "do_it"}) => ~sockSet
  /\ wpc = "clear_que" => ~sockSet
  /\ wpc = "exited" => wres \in {"ok", "set_sock", "do_it"}

\* Nothing of the worker or of the loop has happened.
NothingServed ==
  /\ wpc = "idle"
  /\ wres = "none"
  /\ ~sockSet
  /\ cur = NoReq
  /\ evs = <<>>
  /\ unmounts = 0

\* Before on_ready there is no handle and no worker; while on_ready runs and
\* after it failed nothing of the worker or the loop has happened, and mount
\* returns on_ready's error.
C18_Before ==
  /\ pc \in {"open", "geometry", "set_blksize", "set_size_blocks",
             "clear_sock", "pair", "callback"} => device = "none" /\ NothingServed
  /\ pc = "in_callback" => device = "held" /\ NothingServed
  /\ wpc # "idle" => device = "held"
  /\ loopRes = "callback" =>
       /\ NothingServed
       /\ pc \in {"scope_wait", "post", "returned"}
       /\ pc = "returned" => mountRes = "callback"

\* on_ready is entered once, straight after set_blksize, set_size_blocks,
\* clear_sock and the socket pair succeeded in that order; the worker starts
\* only after on_ready returned Ok.
C18_Order ==
  /\ device' # device =>
       device = "none" /\ device' = "held" /\ pc = "callback" /\ pc' = "in_callback"
  /\ (pc' = "in_callback" /\ pc # "in_callback") => pc = "callback" /\ device = "none"
  /\ (pc' = "callback" /\ pc # "callback") => pc = "pair"
  /\ (pc' = "pair" /\ pc # "pair") => pc = "clear_sock"
  /\ (pc' = "clear_sock" /\ pc # "clear_sock") => pc = "set_size_blocks"
  /\ (pc' = "set_size_blocks" /\ pc # "set_size_blocks") => pc = "set_blksize"
  /\ (pc' = "spawn" /\ pc # "spawn") => pc = "in_callback" /\ loopRes' = "none"
  /\ (wpc' # "idle" /\ wpc = "idle") => pc = "spawn"

\* C18: on_ready is invoked once, after set_blksize, set_size_blocks and
\* clear_sock succeeded in that order and before the worker is spawned; when
\* it fails the worker is never spawned, set_sock and do_it are never issued,
\* nothing is read from U, the backend is not called, and mount returns
\* on_ready's error.
C18_OnReady == []C18_Before /\ [][C18_Order]_vars

\* mount returned on_ready's error with no worker ever spawned.
C18_Witness ==
  /\ pc = "returned"
  /\ mountRes = "callback"
  /\ device = "held"
  /\ NothingServed
  /\ forced

\* The payload of a failed Read is the scratch buffer as the resize left it.
C20_Sent ==
  (pc = "next" /\ ServingKind(CMD_READ) /\ ~Calls[1].res.ok) =>
    /\ Len(buffer) = FrameLen(cur.wire)
    /\ Writes[2].data = buffer

\* The buffer is touched only where a Read or a Write is served (and dropped
\* with the loop); it then has the request's length, and after a Read whose
\* backend call failed each byte is the one that was there before, 0 beyond
\* the old length.
C20_Leftover ==
  /\ buffer' # buffer =>
       \/ pc \in {"rd_call", "wr_payload"}
       \/ buffer' = <<>> /\ pc' \in {"scope_wait", "panic_wait", "post"}
  /\ ((pc = "rd_call" /\ pc' = "rd_reply") \/ (pc = "wr_payload" /\ pc' = "wr_call")) =>
       Len(buffer') = FrameLen(cur.wire)
  /\ (pc = "rd_call" /\ pc' = "rd_reply" /\ ~evs'[Len(evs')].res.ok) =>
       \A i \in 1..FrameLen(cur.wire) :
         buffer'[i] = IF i <= Len(buffer) THEN buffer[i] ELSE 0

\* C20: one scratch buffer serves Reads and Writes and is not cleared in
\* between: the payload of a Read of length L whose backend call failed is,
\* byte by byte, what the previous Read or Write left in the buffer, and 0
\* from that request's length on.
C20_ScratchBuffer == []C20_Sent /\ [][C20_Leftover]_vars

\* A failed Read of two bytes after a Read of the one byte 194: the payload
\* is that byte and a zero.
C20_Witness ==
  /\ pc = "next"
  /\ ServingKind(CMD_READ)
  /\ FrameLen(cur.wire) = 2
  /\ ~Calls[1].res.ok
  /\ buffer = <<194, 0>>
  /\ Writes[2].data = <<194, 0>>

\* The threads run on: the steps mount takes after the loop and every step of
\* the worker are taken when they stay possible.  The kernel's part is in
\* WDoItReturn: do_it returns once U is closed or K is shut down.
LiveSpec ==
  /\ Spec
  /\ WF_vars(Drop) /\ WF_vars(Join) /\ WF_vars(ScopeWait) /\ WF_vars(PanicWait)
  /\ WF_vars(Post)
  /\ WF_vars(WSetSock) /\ WF_vars(WSetFlags) /\ WF_vars(WDoIt)
  /\ WF_vars(WDoItReturn) /\ WF_vars(WClearSock) /\ WF_vars(WClearQue)

\* The loop is over (break, error or panic) and the worker was spawned.
LoopLeft ==
  /\ pc \in {"drop", "join", "scope_wait", "panic_wait"}
  /\ wpc # "idle"

\* Release in reverse order: U is closed before mount waits for the worker,
\* and the worker is gone before mount goes on past the scope.
C19_Order ==
  /\ pc \in {"join", "scope_wait", "panic_wait", "post", "returned", "panicked"}
       => ~uOpen
  /\ pc \in {"post", "returned", "panicked"} => wpc \in {"idle", "exited"}
  /\ Finished => mountRes # "none" \/ pc = "panicked"

\* C19: however the loop ends once the worker runs, U is closed first, then
\* the worker returns and is joined, then mount finishes; with a kernel that
\* returns from do_it once U is closed, mount always finishes.
C19_ReleaseAndFinish == []C19_Order /\ (LoopLeft ~> Finished)

\* After a socket error in the loop, the worker left do_it, cleaned up and
\* was joined, and mount returned.
C19_Witness ==
  /\ pc = "returned"
  /\ mountRes = "loop_io"
  /\ ~uOpen
  /\ wpc = "exited"
  /\ wres = "ok"
  /\ ~sockSet

====
